---- MODULE Spec2Model ----
(***************************************************************************)
(* The isolated job queue of sandrun (src/job_queue.py): the in-memory job *)
(* table, the persisted ledger, the table lock, the execution pool and the *)
(* threads that call enqueue, get_job, delete_job, cancel_job, restart_job *)
(* and _run_job.                                                           *)
(*                                                                         *)
(* self.lock is a threading.Lock (line 78), which is not re-entrant, and   *)
(* _save_jobs takes it (line 102).  Every call of _save_jobs is made from  *)
(* inside a `with self.lock:` block (lines 121, 138, 163, 213, 239, 258),  *)
(* so the calling thread waits for a lock it holds itself.  A thread in    *)
(* that position is at pc "save"; LockAcquire is the only way out of it.   *)
(***************************************************************************)
EXTENDS Integers, Sequences, FiniteSets, TLC

\* ---------------------------------------------------------------- bounds
MaxLedger == 2      \* jobs in the ledger file found at start-up
MaxEnqueue == 1     \* Job objects constructed by enqueue
NumCallers == 1     \* threads calling the queue's public methods
MaxServed == 1      \* jobs in the ledger the HTTP service starts on
NumIps == 1         \* callers (network addresses) the quota enforcer sees
NumSubmissions == 3 \* submissions that may be under way at a time
MaxTicks == 2       \* advances of the clock
max_jobs_per_hour == 3  \* RateLimiter(max_jobs_per_hour=...)
MaxSamples == 2     \* CPU samples a caller's state is drawn with
MaxStarts == 3      \* submission timestamps a caller's state is drawn with
NumWorkers == 1     \* workers in the coordinator's workers_config
WorkerCapacity == 2 \* largest max_concurrent_jobs in workers_config
MaxPoolJobs == 2    \* jobs submitted to the coordinator
NumPolls == 2       \* status requests that may be in flight at a time
MaxFlips == 1       \* changes of a worker node's condition
MaxLostReplies == 1 \* accepted submissions whose reply cannot be read
DrawnWorkers == 2   \* workers of a registry the dispatcher is looked at on
DrawnQueued == 2    \* entries waiting in a drawn dispatch queue

\* ------------------------------------------------------ program constants
max_workers == 2    \* ThreadPoolExecutor(max_workers=max_workers)

VARIABLES
    jobs,       \* self.jobs: job_id -> Job
    ledger,     \* the JSON document in storage_file: job_id -> dict
    lock,       \* owner of self.lock, NoThread when free
    poolq,      \* work queue of self.pool: job ids passed to pool.submit
    pc,         \* per thread: position in the method it executes
    op,         \* per thread: the method it executes
    arg,        \* per thread: the job id the method was called with
    ret,        \* per thread: how its last call ended
    users,      \* ephemeral users that exist in the operating system
    dirs,       \* job directories that exist on disk
    nextId,     \* next value of uuid.uuid4(): never handed out before
    req,        \* src/routes.py: the request the event loop is handling
    \* src/rate_limiter.py
    now,        \* the value time.time() returns, in seconds
    ticks,      \* how many times the clock has been advanced
    cpu_usage,  \* self.cpu_usage: ip -> sequence of <<timestamp, cpu_seconds>>
    active_jobs,    \* self.active_jobs: ip -> set of job ids
    job_history,    \* self.job_history: ip -> sequence of timestamps
    last_seen,  \* self.last_seen: ip -> timestamp
    seen_order, \* the keys of self.last_seen in insertion order
    sub,        \* per submission: where its caller's code stands
    swept,      \* how the last cleanup_inactive_ips ended
    \* src/integrations/trusted-pool/coordinator.py
    workers,    \* self.workers: worker_id -> Worker
    pool_jobs,  \* self.jobs: job_id -> PoolJob
    job_queue,  \* self.job_queue: the entries waiting for the dispatcher
    dispatcher, \* job_dispatcher_loop: where the task stands, what it holds
    health,     \* health_check_loop: the worker it probes next, 0 asleep
    polls,      \* per status request in flight: the job it asks about
    node,       \* per worker: the condition of the remote node
    remote,     \* the jobs the worker nodes have accepted
    flips       \* how many times a node's condition has changed

queueVars == <<jobs, ledger, lock, poolq, pc, op, arg, ret, users, dirs, nextId>>

limiterVars == <<now, ticks, cpu_usage, active_jobs, job_history, last_seen,
                 seen_order, sub, swept>>

poolVars == <<workers, pool_jobs, job_queue, dispatcher, health, polls, node,
              remote, flips>>

\* what the methods of JobQueue never touch
outsideQueue == <<req, limiterVars, poolVars>>

\* what the route handlers never touch, the queue apart
outsideRoutes == <<limiterVars, poolVars>>

\* what the RateLimiter never touches
outsideLimiter == <<queueVars, req, poolVars>>

\* what the TrustedPoolCoordinator never touches
outsidePool == <<queueVars, req, limiterVars>>

vars == <<queueVars, req, limiterVars, poolVars>>

NoThread == 0
Callers == 1..NumCallers
Workers == (NumCallers + 1)..(NumCallers + max_workers)
Threads == Callers \cup Workers

Statuses == {"queued", "running", "completed", "failed", "cancelled"}
Terminal == {"completed", "failed", "cancelled"}
LedgerIds == 1..MaxLedger
FreshIds == (MaxLedger + 1)..(MaxLedger + MaxEnqueue)
\* job ids a caller may present: those not (yet) in the table are unknown
ArgIds == LedgerIds \cup FreshIds

\* Python's None, where a secret or a hash is expected
None == "<None>"

\* the secrets a client may present: none, the empty string, and strings of
\* 3, 13 and 12 characters
Secrets == {None, "", "abc", "correct-horse", "wrong-staple"}

\* hash_secret, lines 16-18: the SHA-256 hex digest (its first 8 digits)
hash_secret(secret) ==
    CASE secret = "" -> "e3b0c442"
      [] secret = "abc" -> "ba7816bf"
      [] secret = "correct-horse" -> "9dca666e"
      [] secret = "wrong-staple" -> "c00cd6a5"

\* Python's truth value of an optional string: None and "" are false
Truthy(secret) == secret \notin {None, ""}

\* Job.__init__: fresh job id, ephemeral user and directory, status queued,
\* and the hash of the secret if one was given
NewJob(id, secret) ==
    [job_id |-> id, ephemeral_user |-> id, directory |-> id,
     status |-> "queued", logs |-> "",
     hashed_secret |-> IF Truthy(secret) THEN hash_secret(secret) ELSE None]

\* Job.to_dict
to_dict(job) ==
    [job_id |-> job.job_id, ephemeral_user |-> job.ephemeral_user,
     directory |-> job.directory, status |-> job.status, logs |-> job.logs,
     hashed_secret |-> job.hashed_secret]

\* Job.from_dict
from_dict(data) ==
    [NewJob(data.job_id, None) EXCEPT !.ephemeral_user = data.ephemeral_user,
                                      !.directory = data.directory,
                                      !.status = data.status,
                                      !.logs = data.logs,
                                      !.hashed_secret = data.hashed_secret]

\* as Resubmitted, had line 96 tested for "not finished" instead
ResubmittedUnlessEnded(status) == status \notin {"completed", "failed"}

\* _load_jobs, line 96: the jobs handed to the pool again at start-up
Resubmitted(status) == status \in {"queued", "running"}

RECURSIVE SubmitOrder(_, _)
\* _load_jobs, lines 93-98: pool.submit in the order of the ledger's keys
SubmitOrder(data, ids) ==
    IF ids = {} THEN <<>>
    ELSE LET j == CHOOSE x \in ids : \A y \in ids : x <= y
         IN  (IF Resubmitted(data[j].status) THEN <<j>> ELSE <<>>)
             \o SubmitOrder(data, ids \ {j})

\* _load_jobs, lines 93-95: the table rebuilt from the ledger
LoadedJobs(data) == [j \in DOMAIN data |-> from_dict(data[j])]

\* _save_jobs, line 103: the document made of a job table
to_dict_all(table) == [j \in DOMAIN table |-> to_dict(table[j])]

\* _save_jobs, lines 103-105: the document written to storage_file
SavedData == to_dict_all(jobs)

\* the lock mutated: acquire never waits
NeverHeld(t) == TRUE

\* threading.Lock.acquire as thread t sees it: a Lock has no owner check,
\* the holder itself waits like any other thread
LockFree(t) == lock = NoThread

\* ------------------------------ the other components at their start
Ips == 1..NumIps
Submissions == 1..NumSubmissions

\* a dict with no keys
EmptyDict == [ip \in {} |-> 0]

\* a submission whose caller is not, or no longer, talking to the limiter
Idle == [pc |-> "idle", ip |-> 0, reason |-> "none", wait |-> 0,
         at |-> 0, samples |-> 0]

\* RateLimiter.__init__, lines 24-42
LimiterInit ==
    /\ now = 0
    /\ ticks = 0
    /\ cpu_usage = EmptyDict
    /\ active_jobs = EmptyDict
    /\ job_history = EmptyDict
    /\ last_seen = EmptyDict
    /\ seen_order = <<>>
    /\ sub = [s \in Submissions |-> Idle]
    /\ swept = "none"

\* the workers of workers_config, in the order of the file
PoolWorkers == 1..NumWorkers

\* PoolJob.worker_id and remote_job_id before the dispatch: None
NoWorker == 0
NoRemote == 0

\* the dispatcher task waiting on job_queue.get(), line 158
Waiting == [pc |-> "get", job |-> 0, worker |-> NoWorker]

\* TrustedPoolCoordinator.__init__, lines 58-71, on a workers_config that
\* gives worker w the capacity config[w], and the two tasks of
\* start_background_tasks, lines 340-344, next to worker nodes in the
\* conditions `nodes`
PoolInit(config, nodes) ==
    /\ workers = [w \in DOMAIN config |->
                    [is_healthy |-> FALSE, active_jobs |-> 0,
                     max_concurrent_jobs |-> config[w]]]
    /\ pool_jobs = <<>>
    /\ job_queue = <<>>
    /\ dispatcher = Waiting
    /\ health = 1
    /\ polls = [p \in 1..NumPolls |-> 0]
    /\ node = nodes
    /\ remote = <<>>
    /\ flips = 0

\* a coordinator that nothing calls, its workers out of reach
PoolUnused == PoolInit([w \in PoolWorkers |-> 1],
                       [w \in PoolWorkers |-> "down"])

\* ------------------------------------------------------------------ Init
\* JobQueue.__init__ has run.  The document in storage_file is an input of
\* the program (absent: created empty, lines 85-88): any ledger of up to
\* MaxLedger jobs, each in any status.  It is loaded, and its queued and
\* running jobs are in the pool's work queue.  The ephemeral user of a
\* queued or running job may exist (the process that wrote the ledger made
\* it); a job that ended has none left, and has its directory.
\* JobQueue.__init__ on a ledger of k jobs with statuses st, enqueued with
\* the secrets `secret`, of which the jobs `us` still have their user
Started(k, st, secret, us) ==
    /\ ledger = [j \in 1..k |->
                   to_dict([NewJob(j, secret[j]) EXCEPT !.status = st[j]])]
    /\ jobs = LoadedJobs(ledger)
    /\ poolq = SubmitOrder(ledger, DOMAIN ledger)
    /\ users = us
    /\ dirs = us \cup {j \in 1..k : st[j] \in Terminal}
    /\ lock = NoThread
    /\ pc = [t \in Threads |-> "idle"]
    /\ op = [t \in Threads |-> "none"]
    /\ arg = [t \in Threads |-> 0]
    /\ ret = [t \in Threads |-> "none"]
    /\ nextId = MaxLedger + 1

\* no request has reached the HTTP routes
NoRequest == [route |-> "none", job_id |-> 0, secret |-> None,
              at |-> "none", resp |-> "none"]

\* the queue on its own, called directly: the jobs of the ledger were
\* enqueued without a secret
Init ==
    \E k \in 0..MaxLedger :
      \E st \in [1..k -> Statuses] :
        \E us \in SUBSET {j \in 1..k : st[j] \in {"queued", "running"}} :
          /\ Started(k, st, [j \in 1..k |-> None], us)
          /\ req = NoRequest
          /\ LimiterInit
          /\ PoolUnused

\* --------------------------------------------------------------- helpers
\* leaving the `with self.lock:` block by return or by a raised exception;
\* the caller keeps what came back, the method's frame is gone
Finish(t, r) ==
    /\ lock' = NoThread
    /\ pc' = [pc EXCEPT ![t] = "idle"]
    /\ op' = [op EXCEPT ![t] = "none"]
    /\ arg' = [arg EXCEPT ![t] = 0]
    /\ ret' = [ret EXCEPT ![t] = r]

\* calling self._save_jobs() with the lock held, from method o on job j
CallSave(t, o, j) ==
    /\ pc' = [pc EXCEPT ![t] = "save"]
    /\ op' = [op EXCEPT ![t] = o]
    /\ arg' = [arg EXCEPT ![t] = j]
    /\ UNCHANGED <<lock, ret>>

\* --------------------------------------------------------------- actions
\* A thread enters enqueue, get_job, delete_job, cancel_job or restart_job
\* and requests the lock (lines 119, 194, 204, 226, 250).  Nothing of the
\* call is visible to another thread before the lock is granted, so which
\* method it is, and on which job, is fixed by the step that runs its body.
Call(t) ==
    /\ t \in Callers
    /\ pc[t] = "idle"
    /\ pc' = [pc EXCEPT ![t] = "lock"]
    /\ ret' = [ret EXCEPT ![t] = "none"]
    /\ UNCHANGED <<jobs, ledger, lock, poolq, op, arg, users, dirs, nextId>>
    /\ UNCHANGED outsideQueue

\* a pool thread takes the next _run_job call off the work queue (line 135)
WorkerTake(w) ==
    /\ w \in Workers
    /\ pc[w] = "idle"
    /\ poolq # <<>>
    /\ pc' = [pc EXCEPT ![w] = "lock"]
    /\ op' = [op EXCEPT ![w] = "run"]
    /\ arg' = [arg EXCEPT ![w] = Head(poolq)]
    /\ ret' = [ret EXCEPT ![w] = "none"]
    /\ poolq' = Tail(poolq)
    /\ UNCHANGED <<jobs, ledger, lock, users, dirs, nextId>>
    /\ UNCHANGED outsideQueue

\* `with self.lock:` of a method (pc "lock") and of _save_jobs (pc "save").
\* _save_jobs, once it has the lock, writes the document and releases.
LockAcquire(t) ==
    /\ pc[t] \in {"lock", "save"}
    /\ LockFree(t)
    /\ IF pc[t] = "save"
       THEN /\ ledger' = SavedData
            /\ pc' = [pc EXCEPT ![t] = "saved"]
            /\ UNCHANGED lock
       ELSE /\ lock' = t
            /\ pc' = [pc EXCEPT ![t] = "locked"]
            /\ UNCHANGED ledger
    /\ UNCHANGED <<jobs, poolq, op, arg, ret, users, dirs, nextId>>
    /\ UNCHANGED outsideQueue

\* enqueue, lines 118-121: a Job with fresh uuids is put into the table
EnqueueLocked(t, secret) ==
    /\ t \in Callers
    /\ pc[t] = "locked"
    /\ nextId \in FreshIds
    /\ jobs' = (nextId :> NewJob(nextId, secret)) @@ jobs
    /\ nextId' = nextId + 1
    /\ CallSave(t, "enqueue", nextId)
    /\ UNCHANGED <<ledger, poolq, users, dirs>>
    /\ UNCHANGED outsideQueue

\* _run_job, lines 135-138; a job id missing from the table raises KeyError
RunLocked(w) ==
    /\ w \in Workers
    /\ pc[w] = "locked"
    /\ IF arg[w] \in DOMAIN jobs
       THEN /\ jobs' = [jobs EXCEPT ![arg[w]].status = "running"]
            /\ CallSave(w, "run", arg[w])
       ELSE /\ Finish(w, "KeyError")
            /\ UNCHANGED jobs
    /\ UNCHANGED <<ledger, poolq, users, dirs, nextId>>
    /\ UNCHANGED outsideQueue

\* get_job, lines 194-195
GetJobLocked(t, j) ==
    /\ t \in Callers
    /\ pc[t] = "locked"
    /\ Finish(t, IF j \in DOMAIN jobs THEN "job" ELSE "None")
    /\ UNCHANGED <<jobs, ledger, poolq, users, dirs, nextId>>
    /\ UNCHANGED outsideQueue

\* delete_job, lines 204-213
DeleteLocked(t, j) ==
    /\ t \in Callers
    /\ pc[t] = "locked"
    /\ IF j \notin DOMAIN jobs
       THEN /\ Finish(t, "Job not found.")
            /\ UNCHANGED jobs
       ELSE IF jobs[j].status = "running"
            THEN /\ Finish(t, "Cannot delete a running job.")
                 /\ UNCHANGED jobs
            ELSE /\ jobs' = [i \in DOMAIN jobs \ {j} |-> jobs[i]]
                 /\ CallSave(t, "delete", j)
    /\ UNCHANGED <<ledger, poolq, users, dirs, nextId>>
    /\ UNCHANGED outsideQueue

\* cancel_job, lines 226-232: the checks made before the kill
CancelLocked(t, j) ==
    /\ t \in Callers
    /\ pc[t] = "locked"
    /\ IF j \notin DOMAIN jobs
       THEN Finish(t, "Job not found.")
       ELSE IF jobs[j].status # "running"
            THEN Finish(t, "Job is not running.")
            ELSE /\ pc' = [pc EXCEPT ![t] = "pkill"]
                 /\ op' = [op EXCEPT ![t] = "cancel"]
                 /\ arg' = [arg EXCEPT ![t] = j]
                 /\ UNCHANGED <<lock, ret>>
    /\ UNCHANGED <<jobs, ledger, poolq, users, dirs, nextId>>
    /\ UNCHANGED outsideQueue

\* the results of `sudo pkill -u <user>`: a signal was sent, no process
\* matched (a return code other than 0), or the command could not be run
KillOutcomes == {"signalled", "no_match", "os_error"}

\* pkill signals only processes of a user that exists
KillPossible(j, outcome) ==
    outcome = "signalled" => jobs[j].ephemeral_user \in users

\* cancel_job, lines 233-241, with the lock still held
CancelKill(t, outcome) ==
    /\ pc[t] = "pkill"
    /\ outcome \in KillOutcomes
    /\ KillPossible(arg[t], outcome)
    /\ IF outcome = "signalled"
       THEN /\ jobs' = [jobs EXCEPT ![arg[t]].status = "cancelled"]
            /\ CallSave(t, "cancel", arg[t])
       ELSE /\ Finish(t, "Error canceling job")
            /\ UNCHANGED jobs
    /\ UNCHANGED <<ledger, poolq, users, dirs, nextId>>
    /\ UNCHANGED outsideQueue

\* restart_job, lines 250-258
RestartLocked(t, j) ==
    /\ t \in Callers
    /\ pc[t] = "locked"
    /\ IF j \notin DOMAIN jobs
       THEN /\ Finish(t, "Job not found.")
            /\ UNCHANGED jobs
       ELSE IF jobs[j].status # "cancelled"
            THEN /\ Finish(t, "Job is not cancelled.")
                 /\ UNCHANGED jobs
            ELSE /\ jobs' = [jobs EXCEPT ![j].status = "queued"]
                 /\ CallSave(t, "restart", j)
    /\ UNCHANGED <<ledger, poolq, users, dirs, nextId>>
    /\ UNCHANGED outsideQueue

\* the process dies and is started again: JobQueue.__init__ and _load_jobs
\* on the ledger as it is on disk; users and directories outlive the process
CrashRestart ==
    /\ jobs' = LoadedJobs(ledger)
    /\ poolq' = SubmitOrder(ledger, DOMAIN ledger)
    /\ lock' = NoThread
    /\ pc' = [t \in Threads |-> "idle"]
    /\ op' = [t \in Threads |-> "none"]
    /\ arg' = [t \in Threads |-> 0]
    /\ ret' = [t \in Threads |-> "none"]
    /\ req' = NoRequest
    /\ UNCHANGED <<ledger, users, dirs, nextId>>
    /\ UNCHANGED <<limiterVars, poolVars>>

\* the steps a thread takes on its own once it is inside a method
ThreadStep(t) ==
    \/ LockAcquire(t)
    \/ \E s \in Secrets : EnqueueLocked(t, s)
    \/ RunLocked(t)
    \/ \E j \in ArgIds : GetJobLocked(t, j)
    \/ \E j \in ArgIds : DeleteLocked(t, j)
    \/ \E j \in ArgIds : CancelLocked(t, j)
    \/ \E o \in KillOutcomes : CancelKill(t, o)
    \/ \E j \in ArgIds : RestartLocked(t, j)

\* the steps of the threads of one process
Run ==
    \/ \E t \in Callers : Call(t)
    \/ \E w \in Workers : WorkerTake(w)
    \/ \E t \in Threads : LockAcquire(t)
    \/ \E t \in Callers, s \in Secrets : EnqueueLocked(t, s)
    \/ \E w \in Workers : RunLocked(w)
    \/ \E t \in Callers, j \in ArgIds : GetJobLocked(t, j)
    \/ \E t \in Callers, j \in ArgIds : DeleteLocked(t, j)
    \/ \E t \in Callers, j \in ArgIds : CancelLocked(t, j)
    \/ \E t \in Callers, o \in KillOutcomes : CancelKill(t, o)
    \/ \E t \in Callers, j \in ArgIds : RestartLocked(t, j)

Next ==
    \/ Run
    \/ CrashRestart

Spec == Init /\ [][Next]_vars

\* One life of the process, from start-up on any ledger, with no further
\* crash: every thread that can take a step is scheduled, and an idle pool
\* thread takes the work that is queued for it.
FairSpec ==
    /\ Init
    /\ [][Run]_vars
    /\ \A t \in Threads : WF_vars(ThreadStep(t))
    /\ \A w \in Workers : WF_vars(WorkerTake(w))

TypeOK ==
    /\ DOMAIN jobs \subseteq LedgerIds \cup FreshIds
    /\ \A j \in DOMAIN jobs : jobs[j].status \in Statuses /\ jobs[j].job_id = j
    /\ lock \in Threads \cup {NoThread}
    /\ \A t \in Threads : pc[t] \in {"idle", "lock", "locked", "pkill", "save", "saved"}

\* No thread comes back from _save_jobs, and the ledger is never written:
\* the statements after the calls of _save_jobs (lines 123-126, 140-164,
\* 214-215, 259-261) are not executed in any behaviour, which is why no
\* action of this module stands for them.
SaveNeverReturns ==
    /\ \A t \in Threads : pc[t] # "saved"
    /\ \A t \in Threads : pc[t] = "save" => lock = t
    /\ ledger = to_dict_all(LoadedJobs(ledger))

LedgerNeverWritten == [][ledger' = ledger /\ users' = users /\ dirs' = dirs]_vars

\* ------------------------------------- src/rate_limiter.py: RateLimiter
\* the instance of lines 123-128, but for max_jobs_per_hour (a bound here)
cpu_seconds_per_minute == 10
max_concurrent_jobs == 2
cleanup_after_hours == 24

\* the CPU seconds a job may report at its end, and the steps of the clock:
\* half a minute, and a day and an hour
CpuCosts == {5, 10}
Delays == {30, 90000}

\* defaultdict.__getitem__: a missing key is created with the default value
Touch(d, ip, default) == IF ip \in DOMAIN d THEN d ELSE (ip :> default) @@ d

\* d[ip] = v
Put(d, ip, v) == [i \in DOMAIN d \cup {ip} |-> IF i = ip THEN v ELSE d[i]]

\* del d[ip], for a key that is there
Without(d, ip) == [i \in DOMAIN d \ {ip} |-> d[i]]

\* the keys of last_seen after last_seen[ip] = now: a new key goes last
Seen(order, ip) ==
    IF \E i \in 1..Len(order) : order[i] = ip THEN order ELSE Append(order, ip)

\* as PopOldCpu, had line 99 been an `if`: one sample dropped at most
PopOneOldCpu(q, minute_ago) ==
    IF q # <<>> /\ Head(q)[1] < minute_ago THEN Tail(q) ELSE q

RECURSIVE PopOldCpu(_, _)
\* _cleanup_old_entries, lines 98-100
PopOldCpu(q, minute_ago) ==
    IF q # <<>> /\ Head(q)[1] < minute_ago
    THEN PopOldCpu(Tail(q), minute_ago)
    ELSE q

RECURSIVE PopOldHistory(_, _)
\* _cleanup_old_entries, lines 103-105
PopOldHistory(q, hour_ago) ==
    IF q # <<>> /\ Head(q) < hour_ago
    THEN PopOldHistory(Tail(q), hour_ago)
    ELSE q

RECURSIVE RecentCpuFromEdge(_, _)
\* as RecentCpu, had line 63 tested t >= minute_ago
RecentCpuFromEdge(q, minute_ago) ==
    IF q = <<>> THEN 0
    ELSE (IF Head(q)[1] >= minute_ago THEN Head(q)[2] ELSE 0)
         + RecentCpuFromEdge(Tail(q), minute_ago)

RECURSIVE RecentCpu(_, _)
\* lines 63 and 92: sum(cpu for t, cpu in q if t > minute_ago)
RecentCpu(q, minute_ago) ==
    IF q = <<>> THEN 0
    ELSE (IF Head(q)[1] > minute_ago THEN Head(q)[2] ELSE 0)
         + RecentCpu(Tail(q), minute_ago)

\* line 57: [t for t in q if t > hour_ago], by position
RecentJobs(q, hour_ago) == {i \in 1..Len(q) : q[i] > hour_ago}

\* can_submit_job(ip), lines 46-68: the answer and the tables it leaves
can_submit_job(ip) ==
    LET active == Touch(active_jobs, ip, {})
        cpu == Put(cpu_usage, ip,
                   PopOldCpu(Touch(cpu_usage, ip, <<>>)[ip], now - 60))
        history == Put(job_history, ip,
                       PopOldHistory(Touch(job_history, ip, <<>>)[ip],
                                     now - 3600))
        recent_jobs == RecentJobs(history[ip], now - 3600)
        recent_cpu == RecentCpu(cpu[ip], now - 60)
    IN  IF Cardinality(active[ip]) >= max_concurrent_jobs
        THEN [allowed |-> FALSE, reason |-> "Max concurrent jobs", wait |-> 0,
              cpu |-> cpu_usage, active |-> active, history |-> job_history]
        ELSE IF Cardinality(recent_jobs) >= max_jobs_per_hour
        THEN [allowed |-> FALSE, reason |-> "Max jobs per hour", wait |-> 0,
              cpu |-> cpu, active |-> active, history |-> history]
        ELSE IF recent_cpu >= cpu_seconds_per_minute
        THEN IF cpu[ip] = <<>>
             THEN [allowed |-> FALSE, reason |-> "IndexError", wait |-> 0,
                   cpu |-> cpu, active |-> active, history |-> history]
             ELSE [allowed |-> FALSE, reason |-> "CPU quota exceeded",
                   wait |-> 60 - (now - cpu[ip][1][1]),
                   cpu |-> cpu, active |-> active, history |-> history]
        ELSE [allowed |-> TRUE, reason |-> "None", wait |-> 0,
              cpu |-> cpu, active |-> active, history |-> history]

\* The caller at address ip asks whether it may submit: can_submit_job.
\* Submissions that are not under way are alike: the next one takes the
\* lowest free number.  A caller rejected for CPU quota keeps the answer,
\* and knows when it got it and how many CPU samples the limiter then held.
CanSubmit(s, ip) ==
    LET answer == can_submit_job(ip)
    IN  /\ sub[s].pc = "idle"
        /\ \A r \in Submissions : sub[r].pc = "idle" => s <= r
        /\ last_seen' = Put(last_seen, ip, now)
        /\ seen_order' = Seen(seen_order, ip)
        /\ cpu_usage' = answer.cpu
        /\ active_jobs' = answer.active
        /\ job_history' = answer.history
        /\ sub' = [sub EXCEPT ![s] =
                     [pc |-> IF answer.allowed THEN "admitted" ELSE "rejected",
                      ip |-> ip, reason |-> answer.reason,
                      wait |-> answer.wait,
                      at |-> IF answer.reason = "CPU quota exceeded"
                             THEN now ELSE 0,
                      samples |-> IF answer.reason = "CPU quota exceeded"
                                  THEN Len(answer.cpu[ip]) ELSE 0]]
        /\ UNCHANGED <<now, ticks, swept>>
        /\ UNCHANGED outsideLimiter

\* the caller has read the rejection; it may ask again
GiveUp(s) ==
    /\ sub[s].pc = "rejected"
    /\ sub' = [sub EXCEPT ![s] = Idle]
    /\ UNCHANGED <<now, ticks, cpu_usage, active_jobs, job_history,
                   last_seen, seen_order, swept>>
    /\ UNCHANGED outsideLimiter

\* register_job_start(ip, job_id), lines 72-76, for an admitted submission;
\* the submission's number is its job id
RegisterStart(s) ==
    LET ip == sub[s].ip
    IN  /\ sub[s].pc = "admitted"
        /\ active_jobs' = Put(active_jobs, ip,
                              Touch(active_jobs, ip, {})[ip] \cup {s})
        /\ job_history' = Put(job_history, ip,
                              Append(Touch(job_history, ip, <<>>)[ip], now))
        /\ last_seen' = Put(last_seen, ip, now)
        /\ seen_order' = Seen(seen_order, ip)
        /\ sub' = [sub EXCEPT ![s].pc = "running"]
        /\ UNCHANGED <<now, ticks, cpu_usage, swept>>
        /\ UNCHANGED outsideLimiter

\* register_job_end(ip, job_id, cpu_seconds), lines 80-85
RegisterEnd(s, cpu_seconds) ==
    LET ip == sub[s].ip
    IN  /\ sub[s].pc = "running"
        /\ active_jobs' = Put(active_jobs, ip,
                              Touch(active_jobs, ip, {})[ip] \ {s})
        /\ cpu_usage' = Put(cpu_usage, ip,
                            PopOldCpu(Append(Touch(cpu_usage, ip, <<>>)[ip],
                                             <<now, cpu_seconds>>),
                                      now - 60))
        /\ job_history' = Put(job_history, ip,
                              PopOldHistory(Touch(job_history, ip, <<>>)[ip],
                                            now - 3600))
        /\ last_seen' = Put(last_seen, ip, now)
        /\ seen_order' = Seen(seen_order, ip)
        /\ sub' = [sub EXCEPT ![s] = Idle]
        /\ UNCHANGED <<now, ticks, swept>>
        /\ UNCHANGED outsideLimiter

\* get_available_cpu_seconds(ip), lines 89-93: a read, but for the key that
\* reading a defaultdict creates
AvailableCpu(ip) ==
    /\ cpu_usage' = Touch(cpu_usage, ip, <<>>)
    /\ UNCHANGED <<now, ticks, active_jobs, job_history, last_seen,
                   seen_order, sub, swept>>
    /\ UNCHANGED outsideLimiter

RECURSIVE Sweep(_, _)
\* cleanup_inactive_ips, lines 114-118: the four `del` for each inactive ip
\* in turn; `del` of a key that is not there raises KeyError
Sweep(st, ips) ==
    IF ips = <<>> THEN st
    ELSE LET ip == Head(ips)
             a == [st EXCEPT !.cpu = Without(st.cpu, ip)]
             b == [a EXCEPT !.active = Without(a.active, ip)]
             c == [b EXCEPT !.history = Without(b.history, ip)]
             d == [c EXCEPT !.seen = Without(c.seen, ip),
                            !.order = SelectSeq(c.order, LAMBDA i : i # ip)]
         IN  IF ip \notin DOMAIN st.cpu THEN [st EXCEPT !.result = "KeyError"]
             ELSE IF ip \notin DOMAIN a.active THEN [a EXCEPT !.result = "KeyError"]
             ELSE IF ip \notin DOMAIN b.history THEN [b EXCEPT !.result = "KeyError"]
             ELSE Sweep(d, Tail(ips))

\* line 111
Cutoff == now - (cleanup_after_hours * 3600)

\* line 113
InactiveIps == SelectSeq(seen_order, LAMBDA ip : last_seen[ip] < Cutoff)

\* cleanup_inactive_ips, lines 109-120
SweepInactive ==
    LET st == Sweep([cpu |-> cpu_usage, active |-> active_jobs,
                     history |-> job_history, seen |-> last_seen,
                     order |-> seen_order, result |-> "ok"], InactiveIps)
    IN  /\ cpu_usage' = st.cpu
        /\ active_jobs' = st.active
        /\ job_history' = st.history
        /\ last_seen' = st.seen
        /\ seen_order' = st.order
        /\ swept' = st.result
        /\ UNCHANGED <<now, ticks, sub>>
        /\ UNCHANGED outsideLimiter

\* time passes
Tick(d) ==
    /\ ticks < MaxTicks
    /\ now' = now + d
    /\ ticks' = ticks + 1
    /\ UNCHANGED <<cpu_usage, active_jobs, job_history, last_seen,
                   seen_order, sub, swept>>
    /\ UNCHANGED outsideLimiter

LimiterNext ==
    \/ \E s \in Submissions, ip \in Ips : CanSubmit(s, ip)
    \/ \E s \in Submissions : GiveUp(s)
    \/ \E s \in Submissions : RegisterStart(s)
    \/ \E s \in Submissions, c \in CpuCosts : RegisterEnd(s, c)
    \/ \E ip \in Ips : AvailableCpu(ip)
    \/ SweepInactive
    \/ \E d \in Delays : Tick(d)

\* a component on its own, next to a queue that nothing calls
QueueUnused ==
    /\ Started(0, <<>>, <<>>, {})
    /\ req = NoRequest

LimiterStart == LimiterInit /\ QueueUnused /\ PoolUnused

\* the quota enforcer on its own
LimiterSpec == LimiterStart /\ [][LimiterNext]_vars

\* the value of time.time() when a drawn state is looked at
DrawnNow == 100000

\* how old the CPU samples and the submission timestamps of a drawn state
\* are, in seconds: inside, on and past the edge of their windows
SampleAges == {0, 30, 60, 61}
StartAges == {0, 3599, 3600, 3601}

\* the sequences of up to n elements of S
UpTo(n, S) == UNION {[1..k -> S] : k \in 0..n}

\* The state of one caller, as register_job_start and register_job_end
\* leave it: samples and timestamps appended in the order of time, any
\* number of them since stale entries stay until the next call prunes them,
\* and a set of active jobs (line 74 adds to it without a check).
QuotaInit ==
    \E cpu \in UpTo(MaxSamples, SampleAges \X CpuCosts),
       starts \in UpTo(MaxStarts, StartAges),
       running \in SUBSET Submissions :
        /\ \A i, j \in 1..Len(cpu) : i < j => cpu[i][1] >= cpu[j][1]
        /\ \A i, j \in 1..Len(starts) : i < j => starts[i] >= starts[j]
        /\ Len(starts) >= Cardinality(running)
        /\ now = DrawnNow
        /\ ticks = 0
        /\ cpu_usage = (1 :> [i \in 1..Len(cpu) |->
                                <<DrawnNow - cpu[i][1], cpu[i][2]>>])
        /\ job_history = (1 :> [i \in 1..Len(starts) |-> DrawnNow - starts[i]])
        /\ active_jobs = (1 :> running)
        /\ last_seen = (1 :> DrawnNow)
        /\ seen_order = <<1>>
        /\ sub = [s \in Submissions |->
                    IF s \in running THEN [Idle EXCEPT !.pc = "running", !.ip = 1]
                    ELSE Idle]
        /\ swept = "none"

QuotaNext ==
    \/ \E s \in Submissions, ip \in Ips : CanSubmit(s, ip)
    \/ \E s \in Submissions : GiveUp(s)

QuotaStart == QuotaInit /\ QueueUnused /\ PoolUnused

\* can_submit_job applied to the states a caller can be in
QuotaSpec == QuotaStart /\ [][QuotaNext]_vars

\* ------------------------------------------------- src/routes.py: routes
\* The route handlers are coroutines (`async def`) that call the queue's
\* blocking methods directly: all of them run on the one event-loop thread.
EventLoop == 1

\* create_job, get_job, get_job_status, get_job_logs, delete_job,
\* download_job_tarball, cancel_job
Routes == {"create", "details", "status", "logs", "delete", "tarball", "cancel"}

\* Query(None, min_length=8) of get_job_status and delete_job
min_length == 8

\* the shortest secret a route accepts as a query parameter
MinLength(route) == IF route \in {"status", "delete"} THEN min_length ELSE 0

\* the secrets the jobs of a ledger were enqueued with
LedgerSecrets == {None, "correct-horse"}

\* the service started on a ledger whose jobs may be protected by a secret
RouteInit ==
    \E k \in 0..MaxServed :
      \E st \in [1..k -> Statuses] :
        \E secret \in [1..k -> LedgerSecrets] :
          \E us \in SUBSET {j \in 1..k : st[j] \in {"queued", "running"}} :
            /\ Started(k, st, secret, us)
            /\ req = NoRequest
            /\ LimiterInit
            /\ PoolUnused

\* A request arrives.  A secret shorter than the route's min_length is
\* refused by the parameter validation (422) before the handler runs; else
\* the handler starts: create_job goes to queue.enqueue (line 92), every
\* other route to queue.get_job (lines 153, 178, 202, 228, 269, 299).
Request(route, j, secret) ==
    /\ pc[EventLoop] = "idle"
    /\ req.at \in {"none", "done"}
    /\ (route = "create") <=> (j = 0)
    /\ IF secret # None /\ Len(secret) < MinLength(route)
       THEN /\ req' = [route |-> route, job_id |-> j, secret |-> secret,
                       at |-> "done", resp |-> "422"]
            /\ UNCHANGED <<pc, ret>>
       ELSE /\ req' = [route |-> route, job_id |-> j, secret |-> secret,
                       at |-> IF route = "create" THEN "enqueue" ELSE "get_job",
                       resp |-> "none"]
            /\ pc' = [pc EXCEPT ![EventLoop] = "lock"]
            /\ ret' = [ret EXCEPT ![EventLoop] = "none"]
    /\ UNCHANGED <<jobs, ledger, lock, poolq, op, arg, users, dirs, nextId>>
    /\ UNCHANGED outsideRoutes

\* the secret check of every route but create_job (lines 157-161, 182-186,
\* 206-210, 232-236, 273-277, 303-307): the job has a hash, and the request
\* has no secret or one with another hash
Denied(j, secret) ==
    /\ jobs[j].hashed_secret # None
    /\ \/ ~Truthy(secret)
       \/ hash_secret(secret) # jobs[j].hashed_secret

\* queue.get_job returns under the lock, and the handler goes on: 404 for
\* an unknown job, 403 when the secret check fails, else the route's work.
\* delete_job and cancel_job call the queue again (lines 238, 310).
RouteGetJob ==
    LET j == req.job_id
        found == j \in DOMAIN jobs
        resp == IF ~found THEN "404"
                ELSE IF Denied(j, req.secret) THEN "403"
                ELSE IF req.route \in {"delete", "cancel"} THEN "none"
                ELSE IF req.route = "tarball" /\ jobs[j].status = "running"
                     THEN "400"
                ELSE "200"
    IN  /\ pc[EventLoop] = "locked"
        /\ req.at = "get_job"
        /\ lock' = NoThread
        /\ ret' = [ret EXCEPT ![EventLoop] = IF found THEN "job" ELSE "None"]
        /\ IF resp = "none"
           THEN /\ req' = [req EXCEPT !.at = req.route \o "_job"]
                /\ pc' = [pc EXCEPT ![EventLoop] = "lock"]
           ELSE /\ req' = [req EXCEPT !.at = "done", !.resp = resp]
                /\ pc' = [pc EXCEPT ![EventLoop] = "idle"]
        /\ UNCHANGED <<jobs, ledger, poolq, op, arg, users, dirs, nextId>>
        /\ UNCHANGED outsideRoutes

\* create_job, line 92: queue.enqueue(command, secret)
RouteEnqueue ==
    /\ req.at = "enqueue"
    /\ EnqueueLocked(EventLoop, req.secret)

\* delete_job, line 238: queue.delete_job(job_id)
RouteDelete ==
    /\ req.at = "delete_job"
    /\ DeleteLocked(EventLoop, req.job_id)

\* cancel_job, line 310: queue.cancel_job(job_id)
RouteCancel ==
    /\ req.at = "cancel_job"
    /\ CancelLocked(EventLoop, req.job_id)

\* the queue's method raised ValueError: cancel_job answers 400 (lines
\* 315-316), delete_job does not catch it and the framework answers 500
RouteRespond ==
    /\ pc[EventLoop] = "idle"
    /\ req.at \in {"delete_job", "cancel_job"}
    /\ req' = [req EXCEPT !.at = "done",
                          !.resp = IF req.at = "cancel_job" THEN "400" ELSE "500"]
    /\ UNCHANGED queueVars
    /\ UNCHANGED outsideRoutes

RouteNext ==
    \/ \E route \in Routes, j \in ArgIds \cup {0}, secret \in Secrets :
          Request(route, j, secret)
    \/ \E w \in Workers : WorkerTake(w)
    \/ \E t \in Threads : LockAcquire(t)
    \/ \E w \in Workers : RunLocked(w)
    \/ RouteGetJob
    \/ RouteEnqueue
    \/ RouteDelete
    \/ RouteCancel
    \/ \E o \in KillOutcomes : CancelKill(EventLoop, o)
    \/ RouteRespond
    \/ CrashRestart

\* the HTTP service: the event loop serving requests, the pool threads
RouteSpec == RouteInit /\ [][RouteNext]_vars

\* ----------------------------------------------------------------- claims
Lifecycle ==
    {<<"queued", "running">>, <<"running", "completed">>,
     <<"running", "failed">>, <<"running", "cancelled">>,
     <<"cancelled", "queued">>}

CanProceed(t) ==
    \/ ENABLED ThreadStep(t)
    \/ /\ lock \notin {NoThread, t}
       /\ ENABLED ThreadStep(lock)

\* C2: a thread that has started a queue operation (or an execution
\* thread's status update) can always still complete it: it is never left
\* waiting for the table lock with nobody able to release it.
C2_OperationsComplete ==
    \A t \in Threads : pc[t] # "idle" => CanProceed(t)

\* C3: a job whose ephemeral user and directory both exist is queued or
\* running; a completed, failed or cancelled job has no ephemeral user.
C3_NoOrphanIdentity ==
    \A j \in DOMAIN jobs :
        /\ (jobs[j].ephemeral_user \in users /\ jobs[j].directory \in dirs)
              => jobs[j].status \in {"queued", "running"}
        /\ jobs[j].status \in Terminal => jobs[j].ephemeral_user \notin users

\* the ValueErrors of cancel_job
CancelErrors == {"Job not found.", "Job is not running.", "Error canceling job"}

\* C4: a cancel that found its job running ends, whatever the kill did,
\* with the job cancelled and no error; a cancel that ends with an error
\* has left the table and the ledger as they were.
C4_CancelExactlyWhenRunning ==
    [][\/ CrashRestart
       \/ \A t \in Callers :
            /\ (pc[t] = "pkill" /\ pc'[t] # "pkill")
                  => /\ jobs'[arg[t]].status = "cancelled"
                     /\ ret'[t] \notin CancelErrors
            /\ (ret[t] = "none" /\ ret'[t] \in CancelErrors)
                  => (jobs' = jobs /\ ledger' = ledger)
      ]_vars

\* C5: a step that takes a cancelled job to queued (restart) gives it an
\* ephemeral user and a directory other than the ones it had.
C5_RestartNewIdentity ==
    [][\A j \in DOMAIN jobs \cap DOMAIN jobs' :
          (jobs[j].status = "cancelled" /\ jobs'[j].status = "queued")
          => /\ jobs'[j].ephemeral_user # jobs[j].ephemeral_user
             /\ jobs'[j].directory # jobs[j].directory
      ]_vars

\* restart_job has accepted job j: it found it cancelled and reset it
RestartAccepted(j) ==
    \E t \in Callers : pc[t] = "save" /\ op[t] = "restart" /\ arg[t] = j

\* C6: restart changes the table only for a cancelled job, and a job whose
\* restart was accepted is eventually marked running and then reaches a
\* terminal status.
C6_RestartRunsAgain ==
    /\ [][\A t \in Callers, j \in DOMAIN jobs :
             (pc[t] = "locked" /\ pc'[t] = "save" /\ op'[t] = "restart"
                /\ arg'[t] = j)
             => jobs[j].status = "cancelled"]_vars
    /\ [][\A t \in Callers :
             (ret[t] = "none"
                /\ ret'[t] \in {"Job not found.", "Job is not cancelled."})
             => (jobs' = jobs /\ ledger' = ledger)]_vars
    /\ \A j \in ArgIds :
         RestartAccepted(j)
           ~> (j \in DOMAIN jobs /\ jobs[j].status = "running")
    /\ \A j \in ArgIds :
         RestartAccepted(j)
           ~> (j \in DOMAIN jobs /\ jobs[j].status \in Terminal)

\* delete_job has taken job j out of the table
DeleteAccepted(j) ==
    \E t \in Callers : pc[t] = "save" /\ op[t] = "delete" /\ arg[t] = j

\* C7: delete leaves a running job in the table and the ledger and ends
\* with invalid_state; a job in any other status that delete takes out of
\* the table is eventually gone from the ledger too, and the delete returns.
C7_DeleteRemovesEntry ==
    /\ [][\A t \in Callers, j \in DOMAIN jobs :
             (pc[t] = "locked" /\ pc'[t] = "save" /\ op'[t] = "delete"
                /\ arg'[t] = j)
             => jobs[j].status # "running"]_vars
    /\ [][\A t \in Callers :
             (ret[t] = "none" /\ ret'[t] = "Cannot delete a running job.")
             => (jobs' = jobs /\ ledger' = ledger)]_vars
    /\ \A j \in ArgIds :
         DeleteAccepted(j)
           ~> (~DeleteAccepted(j) /\ j \notin DOMAIN jobs
                 /\ j \notin DOMAIN ledger)

\* an execution thread has marked job j running
RunStarted(j) ==
    \E w \in Workers : pc[w] = "save" /\ op[w] = "run" /\ arg[w] = j

\* C8: the execution of a job that was started ends, with the job completed
\* (result code zero) or failed (any other result, or an exception), and
\* no exception leaves the execution thread.
C8_ExecutionEnds ==
    /\ \A j \in ArgIds :
         RunStarted(j)
           ~> (~RunStarted(j) /\ j \in DOMAIN jobs
                 /\ jobs[j].status \in {"completed", "failed"})
    /\ [](\A w \in Workers : ret[w] # "KeyError")

\* C9: every job marked running eventually has a terminal status, no
\* ephemeral user, and that status in the ledger.
C9_RunEndsTornDownAndSaved ==
    \A j \in ArgIds :
        RunStarted(j)
          ~> /\ j \in DOMAIN jobs /\ j \in DOMAIN ledger
             /\ jobs[j].status \in Terminal
             /\ jobs[j].ephemeral_user \notin users
             /\ ledger[j].status = jobs[j].status

\* C10: a job the ledger holds as queued or running is, after start-up,
\* eventually taken to a terminal status (or deleted); a job the ledger
\* holds as completed, failed or cancelled is never handed to an execution
\* thread by start-up.
C10_RecoveryRerunsToEnd ==
    /\ \A j \in LedgerIds :
         (j \in DOMAIN ledger /\ ledger[j].status \in {"queued", "running"})
           ~> (j \notin DOMAIN jobs \/ jobs[j].status \in Terminal)
    /\ [](\A w \in Workers :
            op[w] = "run" => ledger[arg[w]].status \in {"queued", "running"})

\* the request in hand is for a job that has a secret and presents no
\* secret, or one whose hash is not the stored hash
Unauthorized ==
    /\ req.route \in Routes \ {"create"}
    /\ req.job_id \in DOMAIN jobs
    /\ Denied(req.job_id, req.secret)

\* C11: a status, logs, details, delete, cancel or tarball request for a
\* job that has a secret, presenting no secret or one whose hash differs,
\* is never passed on to the queue's delete or cancel, and is answered: the
\* handler is never left waiting with nobody able to let it go on, and its
\* answer is the authorization failure (403; a secret shorter than the
\* route's min_length is refused before that, with 422).
C11_SecretRequired ==
    Unauthorized
      => /\ req.at \notin {"delete_job", "cancel_job"}
         /\ req.at = "done" => req.resp \in {"403", "422"}
         /\ req.at = "get_job" => CanProceed(EventLoop)

\* enqueue is at work on job j and can still go on, to the creation of the
\* job's user or to the report of its failure
EnqueueUnderWay(j) ==
    \E t \in Callers : op[t] = "enqueue" /\ arg[t] = j /\ CanProceed(t)

\* C12: a job that enqueue has put into the table and whose ephemeral user
\* does not exist (it was not created yet, or its creation failed) is there
\* only while that enqueue is still under way: once enqueue is over, by
\* return or by the error of the failed creation, no such record is left
\* in the table or in the ledger.
C12_NoRecordWithoutIdentity ==
    \A j \in FreshIds :
        (\/ j \in DOMAIN jobs /\ jobs[j].ephemeral_user \notin users
         \/ j \in DOMAIN ledger /\ ledger[j].ephemeral_user \notin users)
          => EnqueueUnderWay(j)

\* ------------------------------------------------- claims on the quotas
\* the caller's active jobs
ActiveCount(ip) ==
    IF ip \in DOMAIN active_jobs THEN Cardinality(active_jobs[ip]) ELSE 0

\* the caller's submissions of the trailing 3600 seconds
SubmissionsInLastHour(ip) ==
    IF ip \in DOMAIN job_history
    THEN Cardinality({i \in 1..Len(job_history[ip]) :
                        now - job_history[ip][i] < 3600})
    ELSE 0

RECURSIVE TotalCost(_)
TotalCost(samples) ==
    IF samples = <<>> THEN 0 ELSE Head(samples)[2] + TotalCost(Tail(samples))

\* the caller's CPU samples of the trailing 60 seconds
SamplesInLastMinute(ip) ==
    IF ip \in DOMAIN cpu_usage
    THEN SelectSeq(cpu_usage[ip], LAMBDA e : now - e[1] < 60)
    ELSE <<>>

\* the reason the admission policy gives a caller, "None" when it admits
PolicyReason(ip) ==
    IF ActiveCount(ip) >= max_concurrent_jobs THEN "Max concurrent jobs"
    ELSE IF SubmissionsInLastHour(ip) >= max_jobs_per_hour
         THEN "Max jobs per hour"
    ELSE IF TotalCost(SamplesInLastMinute(ip)) >= cpu_seconds_per_minute
         THEN "CPU quota exceeded"
    ELSE "None"

\* C13: can_submit admits a caller exactly when none of the three holds:
\* active jobs at the concurrency cap, submissions of the trailing hour at
\* the hourly cap, CPU seconds of the trailing minute at the per-minute
\* cap; and when it rejects, its reason is that of the first that holds,
\* in the order concurrency, hourly, CPU.  For every caller in every state,
\* and for the answer a caller has in hand.
C13_AdmissionPolicy ==
    /\ \A ip \in Ips :
         LET answer == can_submit_job(ip)
         IN  /\ answer.allowed <=> PolicyReason(ip) = "None"
             /\ answer.reason = PolicyReason(ip)
    /\ \A s \in Submissions :
         sub[s].pc \in {"admitted", "rejected"}
           => /\ sub[s].reason = PolicyReason(sub[s].ip)
              /\ sub[s].pc = "admitted" <=> PolicyReason(sub[s].ip) = "None"

\* C13 witness: a caller has been rejected for the hourly cap while its CPU
\* seconds of the trailing minute are at their cap too, and has a sample
\* on the edge of the minute
C13_Witness ==
    \E s \in Submissions :
        /\ sub[s].pc = "rejected"
        /\ sub[s].reason = "Max jobs per hour"
        /\ TotalCost(SamplesInLastMinute(sub[s].ip)) >= cpu_seconds_per_minute
        /\ \E i \in 1..Len(cpu_usage[sub[s].ip]) :
              now - cpu_usage[sub[s].ip][i][1] = 60

\* C14: whatever the interleaving of the submissions of one caller, each a
\* can_submit followed, when admitted, by register_start, the caller's set
\* of active jobs never holds more than max_concurrent_jobs ids; and while
\* it holds that many, can_submit rejects the caller.
C14_ConcurrencyCap ==
    \A ip \in Ips :
        /\ ActiveCount(ip) <= max_concurrent_jobs
        /\ ActiveCount(ip) >= max_concurrent_jobs
              => ~can_submit_job(ip).allowed

\* the timestamp of the oldest CPU sample of the caller's trailing minute
OldestInWindow(ip) == Head(SamplesInLastMinute(ip))[1]

\* C15: when can_submit rejects a caller for CPU quota, the wait time it
\* reports is 60 - (now - t0), t0 the timestamp of the oldest sample inside
\* the trailing 60 seconds, and is greater than 0; the rejection never
\* fails for lack of a sample.  For every caller in every state, and for
\* the answer a rejected caller has in hand.
C15_WaitTime ==
    /\ \A ip \in Ips :
         LET answer == can_submit_job(ip)
         IN  /\ answer.reason # "IndexError"
             /\ answer.reason = "CPU quota exceeded"
                   => /\ answer.wait = 60 - (now - OldestInWindow(ip))
                      /\ answer.wait > 0
    /\ \A s \in Submissions :
         (sub[s].pc = "rejected" /\ sub[s].reason = "CPU quota exceeded")
           => sub[s].wait > 0

\* the caller of submission s, rejected for CPU quota, has since registered
\* no work: the limiter holds the samples it held, and no later submission
CpuRejectedAndQuiet(s) ==
    LET ip == sub[s].ip
    IN  /\ sub[s].pc = "rejected"
        /\ sub[s].reason = "CPU quota exceeded"
        /\ ip \in DOMAIN cpu_usage
        /\ Len(cpu_usage[ip]) = sub[s].samples
        /\ \A i \in 1..Len(cpu_usage[ip]) : cpu_usage[ip][i][1] <= sub[s].at
        /\ \A i \in 1..Len(job_history[ip]) : job_history[ip][i] <= sub[s].at
        /\ \A r \in Submissions \ {s} : sub[r].ip = ip => sub[r].pc = "rejected"

\* C16: a caller rejected for CPU quota that has no active job, is below
\* the hourly cap and has registered no further work is admitted by
\* can_submit once the reported wait time has elapsed, that is from 60
\* seconds after the timestamp of the oldest sample of its window.
C16_AdmittedAfterWait ==
    \A s \in Submissions :
        (/\ CpuRejectedAndQuiet(s)
         /\ ActiveCount(sub[s].ip) = 0
         /\ SubmissionsInLastHour(sub[s].ip) < max_jobs_per_hour
         /\ now >= sub[s].at + sub[s].wait)
          => can_submit_job(sub[s].ip).allowed

\* the caller's whole state in the four tables, "absent" where it has none
CallerState(ip, cpu, active, history, seen) ==
    [cpu |-> IF ip \in DOMAIN cpu THEN <<cpu[ip]>> ELSE <<>>,
     active |-> IF ip \in DOMAIN active THEN <<active[ip]>> ELSE <<>>,
     history |-> IF ip \in DOMAIN history THEN <<history[ip]>> ELSE <<>>,
     seen |-> IF ip \in DOMAIN seen THEN <<seen[ip]>> ELSE <<>>]

Absent == [cpu |-> <<>>, active |-> <<>>, history |-> <<>>, seen |-> <<>>]

\* C17: sweep_inactive completes without error from every reachable quota
\* state; afterwards a caller last seen before the retention horizon has no
\* entry left in the CPU samples, the submission history, the active-job
\* sets or the last-seen table, and the state of every other caller is
\* unchanged.
C17_SweepInactive ==
    [][SweepInactive =>
         /\ swept' # "KeyError"
         /\ \A ip \in Ips :
              IF ip \in DOMAIN last_seen /\ last_seen[ip] < Cutoff
              THEN CallerState(ip, cpu_usage', active_jobs', job_history',
                               last_seen') = Absent
              ELSE CallerState(ip, cpu_usage', active_jobs', job_history',
                               last_seen')
                   = CallerState(ip, cpu_usage, active_jobs, job_history,
                                 last_seen)]_vars

\* ------------------ src/integrations/trusted-pool/coordinator.py
\* The coordinator runs on one asyncio event loop: the code between two
\* awaits is one step.  A worker node is out of the program: it is "up"
\* (answers the probe with its own identity, accepts submissions, reports
\* statuses), "rejecting" (as up, but refuses submissions with a non-200
\* status), "impostor" (as up, but the probe answer carries another
\* identity), "unwell" (answers every request with a non-200 status) or
\* "down" (no answer: the request raises).
NodeStates == {"up", "rejecting", "impostor", "unwell", "down"}

\* asyncio.Queue.put: the entry goes to the back, and mutated to the front
put_first(q, entry) == <<entry>> \o q

put(q, entry) == Append(q, entry)

PoolJobIds == 1..MaxPoolJobs

\* PoolJob.completed_at: 0 until line 205 stamps it with time.time()
NotStamped == 0
Stamped == 1

\* PoolJob(job_id, status="queued"), lines 166-171
NewPoolJob == [status |-> "queued", worker_id |-> NoWorker,
               remote_job_id |-> NoRemote, completed_at |-> NotStamped]

\* Available mutated: line 105 without the comparison with the capacity
AvailableAtAnyLoad == {w \in DOMAIN workers : workers[w].is_healthy}

\* get_available_worker, lines 101-112: None (NoWorker) or, among the
\* healthy workers below their capacity, the first of the dict with the
\* fewest active jobs
Available ==
    {w \in DOMAIN workers : /\ workers[w].is_healthy
                         /\ workers[w].active_jobs
                              < workers[w].max_concurrent_jobs}

\* get_available_worker mutated: max in place of min
get_busiest_worker ==
    IF Available = {} THEN NoWorker
    ELSE CHOOSE w \in Available :
           \A v \in Available :
              \/ workers[w].active_jobs > workers[v].active_jobs
              \/ /\ workers[w].active_jobs = workers[v].active_jobs
                 /\ w <= v

get_available_worker ==
    IF Available = {} THEN NoWorker
    ELSE CHOOSE w \in Available :
           \A v \in Available :
              \/ workers[w].active_jobs < workers[v].active_jobs
              \/ /\ workers[w].active_jobs = workers[v].active_jobs
                 /\ w <= v

\* accepted submissions whose reply the coordinator could not read
LostReplies ==
    Len(remote)
      - Cardinality({j \in DOMAIN pool_jobs :
                       pool_jobs[j].remote_job_id # NoRemote})

\* submit_job, lines 161-178
SubmitJob ==
    /\ Len(pool_jobs) < MaxPoolJobs
    /\ pool_jobs' = Append(pool_jobs, NewPoolJob)
    /\ job_queue' = put(job_queue, Len(pool_jobs) + 1)
    /\ UNCHANGED <<workers, dispatcher, health, polls, node, remote, flips>>
    /\ UNCHANGED outsidePool

\* job_dispatcher_loop, line 158, into dispatch_job, lines 116-131: the
\* task takes the head of the queue and selects a worker; with none it
\* goes to sleep (line 120), else it posts the job and awaits the answer
DispatcherTake ==
    /\ dispatcher.pc = "get"
    /\ job_queue # <<>>
    /\ job_queue' = Tail(job_queue)
    /\ dispatcher' = [pc |-> IF get_available_worker = NoWorker
                             THEN "backoff" ELSE "post",
                      job |-> Head(job_queue),
                      worker |-> get_available_worker]
    /\ UNCHANGED <<workers, pool_jobs, health, polls, node, remote, flips>>
    /\ UNCHANGED outsidePool

\* dispatch_job, lines 120-122: the sleep is over, the entry goes back
DispatcherRequeue ==
    /\ dispatcher.pc = "backoff"
    /\ job_queue' = put(job_queue, dispatcher.job)
    /\ dispatcher' = Waiting
    /\ UNCHANGED <<workers, pool_jobs, health, polls, node, remote, flips>>
    /\ UNCHANGED outsidePool

\* how a submission forwarded to worker w can end: "ok" (200, body read),
\* "lost" (200, the job is accepted, reading the body raises), "refused"
\* (another status), "error" (the request raises)
DispatchOutcomes(w) ==
    CASE node[w] \in {"up", "impostor"} ->
           {"ok"} \cup (IF LostReplies < MaxLostReplies THEN {"lost"} ELSE {})
      [] node[w] \in {"rejecting", "unwell"} -> {"refused"}
      [] OTHER -> {"error"}

\* dispatch_job, lines 131-153: the answer of the worker
DispatchResponse(outcome) ==
    LET j == dispatcher.job
        w == dispatcher.worker
    IN  /\ dispatcher.pc = "post"
        /\ outcome \in DispatchOutcomes(w)
        /\ remote' = IF outcome \in {"ok", "lost"}
                     THEN Append(remote, [job |-> j, worker |-> w,
                                          status |-> "queued"])
                     ELSE remote
        /\ pool_jobs' = IF outcome = "ok"
                        THEN [pool_jobs EXCEPT
                                ![j] = [status |-> "dispatched",
                                        worker_id |-> w,
                                        remote_job_id |-> Len(remote) + 1,
                                        completed_at |-> NotStamped]]
                        ELSE pool_jobs
        /\ workers' = CASE outcome = "ok" ->
                             [workers EXCEPT ![w].active_jobs = @ + 1]
                        [] outcome \in {"lost", "error"} ->
                             [workers EXCEPT ![w].is_healthy = FALSE]
                        [] OTHER -> workers
        /\ job_queue' = IF outcome = "ok" THEN job_queue
                        ELSE put(job_queue, j)
        /\ dispatcher' = Waiting
        /\ UNCHANGED <<health, polls, node, flips>>
        /\ UNCHANGED outsidePool

\* the identity an impostor reports: that of no configured worker
Stranger == 0

\* what GET /health of worker w brings, lines 76-79: a status and the
\* worker_id of the body, or the request raises
Probe(w) ==
    CASE node[w] \in {"up", "rejecting"} -> [status |-> "200", worker_id |-> w]
      [] node[w] = "impostor" -> [status |-> "200", worker_id |-> Stranger]
      [] node[w] = "unwell" -> [status |-> "503", worker_id |-> w]
      [] OTHER -> [status |-> "raised", worker_id |-> Stranger]

\* health_check_worker mutated: the identity of the answer is not compared
health_check_worker_any_identity(w) == Probe(w).status = "200"

\* health_check_worker, lines 73-92: the value it returns and leaves in
\* worker.is_healthy
health_check_worker(w) ==
    /\ Probe(w).status = "200"
    /\ Probe(w).worker_id = w

\* the health check mutated: a worker found unhealthy loses its count
HealthCheckWorkerResetting ==
    /\ health \in DOMAIN workers
    /\ workers' = [workers EXCEPT
                     ![health] = IF health_check_worker(health)
                                 THEN [@ EXCEPT !.is_healthy = TRUE]
                                 ELSE [@ EXCEPT !.is_healthy = FALSE,
                                                !.active_jobs = 0]]
    /\ health' = IF health < Cardinality(DOMAIN workers)
                 THEN health + 1 ELSE 0
    /\ UNCHANGED <<pool_jobs, job_queue, dispatcher, polls, node, remote, flips>>
    /\ UNCHANGED outsidePool

\* health_check_loop, lines 97-98, for the worker the loop has reached
HealthCheckWorker ==
    /\ health \in DOMAIN workers
    /\ workers' = [workers EXCEPT
                     ![health].is_healthy = health_check_worker(health)]
    /\ health' = IF health < Cardinality(DOMAIN workers)
                 THEN health + 1 ELSE 0
    /\ UNCHANGED <<pool_jobs, job_queue, dispatcher, polls, node, remote, flips>>
    /\ UNCHANGED outsidePool

\* health_check_loop, line 99: the sleep is over
HealthCheckWake ==
    /\ health = 0
    /\ health' = 1
    /\ UNCHANGED <<workers, pool_jobs, job_queue, dispatcher, polls, node,
                   remote, flips>>
    /\ UNCHANGED outsidePool

\* get_job_status, lines 180-196, for a job that is dispatched or running:
\* the request to the worker is sent.  (For any other job the method
\* returns the local status and changes nothing.)  Requests that are not
\* in flight are alike: the next one takes the lowest free number.
GetJobStatus(p, j) ==
    /\ polls[p] = 0
    /\ \A r \in 1..NumPolls : polls[r] = 0 => p <= r
    /\ j \in DOMAIN pool_jobs
    /\ pool_jobs[j].status \in {"dispatched", "running"}
    /\ pool_jobs[j].worker_id # NoWorker
    /\ polls' = [polls EXCEPT ![p] = j]
    /\ UNCHANGED <<workers, pool_jobs, job_queue, dispatcher, health, node,
                   remote, flips>>
    /\ UNCHANGED outsidePool

\* what GET /status/<remote_job_id> of the job's worker brings, lines
\* 192-198: status 200 and the status the job has in the worker's own
\* queue, another status, or the request raises
StatusAnswer(j) ==
    LET w == pool_jobs[j].worker_id
    IN  CASE node[w] \in {"up", "rejecting", "impostor"} ->
               [status |-> "200",
                body |-> remote[pool_jobs[j].remote_job_id].status]
          [] node[w] = "unwell" -> [status |-> "503", body |-> "none"]
          [] OTHER -> [status |-> "raised", body |-> "none"]

\* get_job_status mutated: a request that raises is not caught
get_job_status_uncaught(j) ==
    LET resp == StatusAnswer(j)
    IN  CASE resp.status = "200" ->
               [raised |-> FALSE, pool_status |-> resp.body,
                worker_status |-> resp.body]
          [] resp.status = "raised" ->
               [raised |-> TRUE, pool_status |-> "none",
                worker_status |-> "none"]
          [] OTHER ->
               [raised |-> FALSE, pool_status |-> pool_jobs[j].status,
                worker_status |-> "none"]

\* get_job_status, lines 197-226, once the request has ended: what the
\* method returns.  With status 200 the dict of lines 207-214, whose
\* pool_status is what the worker reported (line 201); else the dict of
\* lines 220-226 with the local status, an exception being caught at line
\* 216.
get_job_status(j) ==
    LET resp == StatusAnswer(j)
    IN  IF resp.status = "200"
        THEN [raised |-> FALSE, pool_status |-> resp.body,
              worker_status |-> resp.body]
        ELSE [raised |-> FALSE, pool_status |-> pool_jobs[j].status,
              worker_status |-> "none"]

\* get_job_status, lines 197-226: the answer of the worker.  A worker that
\* is up reports the status the job has in its own queue; line 201 takes
\* it as the PoolJob's status, and lines 203-205 release a slot of the
\* worker when the status now is completed or failed.
StatusResponse(p) ==
    LET j == polls[p]
        w == pool_jobs[j].worker_id
        answer == get_job_status(j)
    IN  /\ polls[p] # 0
        /\ polls' = [polls EXCEPT ![p] = 0]
        /\ pool_jobs' =
             [pool_jobs EXCEPT
                ![j].status = answer.pool_status,
                ![j].completed_at =
                    IF answer.worker_status \in {"completed", "failed"}
                    THEN Stamped ELSE @]
        /\ workers' =
             IF answer.worker_status \in {"completed", "failed"}
             THEN [workers EXCEPT ![w].active_jobs =
                     IF @ - 1 > 0 THEN @ - 1 ELSE 0]
             ELSE workers
        /\ UNCHANGED <<job_queue, dispatcher, health, node, remote, flips>>
        /\ UNCHANGED outsidePool

\* get_job_output, lines 228-253: the file is fetched from the job's worker
\* and handed on; the coordinator's state is read only
GetJobOutput(j) ==
    /\ j \in DOMAIN pool_jobs
    /\ pool_jobs[j].worker_id # NoWorker
    /\ UNCHANGED poolVars
    /\ UNCHANGED outsidePool

\* the worker node runs a job it has accepted, in its own queue
WorkerProgress(r, status) ==
    /\ r \in DOMAIN remote
    /\ \/ remote[r].status = "queued" /\ status = "running"
       \/ remote[r].status = "running" /\ status \in {"completed", "failed"}
    /\ remote' = [remote EXCEPT ![r].status = status]
    /\ UNCHANGED <<workers, pool_jobs, job_queue, dispatcher, health, polls,
                   node, flips>>
    /\ UNCHANGED outsidePool

\* the condition of a worker node changes
NodeChange(w, condition) ==
    /\ flips < MaxFlips
    /\ node[w] # condition
    /\ node' = [node EXCEPT ![w] = condition]
    /\ flips' = flips + 1
    /\ UNCHANGED <<workers, pool_jobs, job_queue, dispatcher, health, polls,
                   remote>>
    /\ UNCHANGED outsidePool

\* the steps of the dispatcher task and of the health-check task
DispatcherStep ==
    \/ DispatcherTake
    \/ DispatcherRequeue
    \/ \E outcome \in {"ok", "lost", "refused", "error"} :
          DispatchResponse(outcome)

\* a status request in flight ends: answered, or timed out (line 195)
StatusStep == \E p \in 1..NumPolls : StatusResponse(p)

HealthStep ==
    \/ HealthCheckWorker
    \/ HealthCheckWake

PoolNext ==
    \/ SubmitJob
    \/ DispatcherStep
    \/ HealthStep
    \/ \E p \in 1..NumPolls, j \in PoolJobIds : GetJobStatus(p, j)
    \/ StatusStep
    \/ \E j \in PoolJobIds : GetJobOutput(j)
    \/ \E r \in 1..(MaxPoolJobs + MaxLostReplies) :
         \E status \in {"running", "completed", "failed"} :
            WorkerProgress(r, status)
    \/ \E w \in PoolWorkers, condition \in NodeStates : NodeChange(w, condition)

PoolStart ==
    /\ \E config \in [PoolWorkers -> 1..WorkerCapacity] :
         \E nodes \in [PoolWorkers -> NodeStates] : PoolInit(config, nodes)
    /\ QueueUnused
    /\ LimiterInit

\* the coordinator on its own
PoolSpec == PoolStart /\ [][PoolNext]_vars

\* the two background tasks are scheduled by the event loop whenever they
\* can run, and a request that was sent ends; callers are under no
\* obligation to ask for a status, nor the worker nodes to make progress
FairPoolSpec ==
    /\ PoolSpec
    /\ WF_vars(DispatcherStep)
    /\ WF_vars(HealthStep)
    /\ WF_vars(StatusStep)

\* A registry the coordinator can have come to: every worker healthy or
\* not, with a capacity and a number of active jobs within it.
WorkerRecords ==
    {r \in [is_healthy : BOOLEAN, active_jobs : 0..WorkerCapacity,
            max_concurrent_jobs : 1..WorkerCapacity] :
        r.active_jobs <= r.max_concurrent_jobs}

RECURSIVE Owners(_, _)
\* the workers of the jobs under way, worker by worker: registry[w] is
\* there active_jobs times
Owners(registry, w) ==
    IF w > Cardinality(DOMAIN registry) THEN <<>>
    ELSE [i \in 1..registry[w].active_jobs |-> w] \o Owners(registry, w + 1)

\* The dispatcher looked at on its own: the coordinator with the registry
\* drawn, each active job dispatched and running on its worker, queued
\* entries behind them, and the nodes in the conditions drawn.
SelectInit ==
    \E registry \in [1..DrawnWorkers -> WorkerRecords] :
      \E nodes \in [1..DrawnWorkers -> NodeStates] :
        \E queued \in 1..DrawnQueued :
          LET owners == Owners(registry, 1)
              under_way == Len(owners)
          IN  /\ workers = registry
              /\ pool_jobs = [j \in 1..(under_way + queued) |->
                                IF j <= under_way
                                THEN [status |-> "dispatched",
                                      worker_id |-> owners[j],
                                      remote_job_id |-> j,
                                      completed_at |-> NotStamped]
                                ELSE NewPoolJob]
              /\ remote = [r \in 1..under_way |->
                             [job |-> r, worker |-> owners[r],
                              status |-> "running"]]
              /\ job_queue = [i \in 1..queued |-> under_way + i]
              /\ dispatcher = Waiting
              /\ health = 1
              /\ polls = [p \in 1..NumPolls |-> 0]
              /\ node = nodes
              /\ flips = 0

SelectNext ==
    \/ DispatcherStep
    \/ HealthStep

SelectStart == SelectInit /\ QueueUnused /\ LimiterInit

\* get_available_worker and dispatch_job applied to the registries the
\* coordinator can have
SelectSpec == SelectStart /\ [][SelectNext]_vars

\* ---------------------------------------------- claims on the coordinator
PoolStatuses == {"queued", "dispatched", "running", "completed", "failed"}

\* how far along queued -> dispatched -> running -> {completed, failed}
Stage(status) ==
    CASE status = "queued" -> 0
      [] status = "dispatched" -> 1
      [] status = "running" -> 2
      [] OTHER -> 3

\* C18: a PoolJob's status is always one of queued, dispatched, running,
\* completed, failed, and every step leaves it as it is or moves it forward
\* along queued -> dispatched -> running -> {completed, failed}: a job that
\* has been dispatched never returns to queued and a completed or failed
\* job never changes, whatever the worker reports.
C18_StatusForward ==
    [][\A j \in DOMAIN pool_jobs :
         /\ pool_jobs'[j].status \in PoolStatuses
         /\ \/ pool_jobs'[j].status = pool_jobs[j].status
            \/ Stage(pool_jobs[j].status) < Stage(pool_jobs'[j].status)]_vars

\* the entries for job j in the dispatch queue or in the dispatcher's hands
Entries(j) ==
    Cardinality({i \in DOMAIN job_queue : job_queue[i] = j})
      + (IF dispatcher.pc # "get" /\ dispatcher.job = j THEN 1 ELSE 0)

\* C19: in every reachable coordinator state every PoolJob whose status is
\* queued has exactly one entry, in the FIFO dispatch queue or held by the
\* dispatcher (being dispatched or waiting out the backoff).
C19_NoWorkLost ==
    \A j \in DOMAIN pool_jobs :
        pool_jobs[j].status = "queued" => Entries(j) = 1

\* worker w answers, accepts submissions, and has finished every job it
\* accepted
WorkerReady(w) ==
    /\ node[w] = "up"
    /\ \A r \in DOMAIN remote :
          remote[r].worker = w => remote[r].status \in {"completed", "failed"}

NoWorkerHealthy == \A w \in PoolWorkers : ~workers[w].is_healthy

\* job j waits for the dispatcher while no worker is healthy
QueuedWithoutWorker(j) ==
    IF j \in DOMAIN pool_jobs
    THEN /\ pool_jobs[j].status = "queued"
         /\ Entries(j) = 1
         /\ NoWorkerHealthy
    ELSE FALSE

\* job j has been dispatched
LeftQueued(j) ==
    IF j \in DOMAIN pool_jobs THEN pool_jobs[j].status # "queued" ELSE FALSE

\* C20: a job submitted while no worker is healthy is eventually dispatched
\* once a worker becomes healthy, stays so and accepts submissions: if from
\* some point on a worker is up with nothing left to run, every PoolJob
\* that is queued while no worker is healthy leaves queued.
C20_EventuallyDispatched ==
    \A j \in PoolJobIds :
        (\E w \in PoolWorkers : <>[]WorkerReady(w))
          => (QueuedWithoutWorker(j) ~> LeftQueued(j))

\* the jobs assigned to worker w that this step brings to completed or failed
Finishing(w) ==
    {j \in DOMAIN pool_jobs :
        /\ pool_jobs[j].worker_id = w
        /\ pool_jobs[j].status \notin {"completed", "failed"}
        /\ pool_jobs'[j].status \in {"completed", "failed"}}

\* C21: a worker's active-job count is decremented exactly once for each
\* PoolJob assigned to it that reaches completed or failed, however many
\* status polls there are and however they overlap: a step takes from the
\* count exactly the number of jobs it brings to completed or failed.
C21_DecrementOnce ==
    [][\A w \in DOMAIN workers :
         \/ workers'[w].active_jobs > workers[w].active_jobs
         \/ workers'[w].active_jobs
              = workers[w].active_jobs - Cardinality(Finishing(w))]_vars

\* the workers that are healthy and have fewer active jobs than capacity
Eligible ==
    {w \in DOMAIN workers :
        workers[w].is_healthy
          /\ workers[w].active_jobs < workers[w].max_concurrent_jobs}

\* C22: the dispatcher forwards an entry only to a worker that, when it is
\* selected, is healthy and below its capacity and has the fewest active
\* jobs of all such workers; when there is none it forwards nothing, waits
\* the backoff interval and then pushes the entry back onto the queue.
C22_Selection ==
    [][/\ (dispatcher.pc = "get" /\ dispatcher'.pc # "get")
            => /\ dispatcher'.job = Head(job_queue)
               /\ IF Eligible = {}
                  THEN /\ dispatcher'.pc = "backoff"
                       /\ dispatcher'.worker = NoWorker
                       /\ remote' = remote
                  ELSE /\ dispatcher'.pc = "post"
                       /\ dispatcher'.worker \in Eligible
                       /\ \A v \in Eligible :
                            workers[dispatcher'.worker].active_jobs
                              <= workers[v].active_jobs
       /\ (dispatcher.pc = "backoff" /\ dispatcher' # dispatcher)
            => /\ job_queue' = Append(job_queue, dispatcher.job)
               /\ dispatcher'.pc = "get"
               /\ remote' = remote
               /\ pool_jobs' = pool_jobs
               /\ workers' = workers]_vars

\* an entry is on its way to the less busy of two workers that were both
\* eligible
C22_Witness ==
    /\ dispatcher.pc = "post"
    /\ \E v \in DOMAIN workers :
         /\ v # dispatcher.worker
         /\ v \in Eligible
         /\ dispatcher.worker \in Eligible
         /\ workers[v].active_jobs > workers[dispatcher.worker].active_jobs

\* C23: after a dispatch attempt that ends in a transport failure or in a
\* non-success answer of the worker, that worker is marked unhealthy, the
\* entry is back in the dispatch queue, the PoolJob is still queued with no
\* worker and no remote id, and the worker's active-job count is unchanged.
C23_FailedDispatch ==
    [][(/\ dispatcher.pc = "post"
        /\ dispatcher'.pc = "get"
        /\ node[dispatcher.worker] \in {"rejecting", "unwell", "down"})
          => /\ ~workers'[dispatcher.worker].is_healthy
             /\ job_queue' = Append(job_queue, dispatcher.job)
             /\ pool_jobs'[dispatcher.job] = NewPoolJob
             /\ workers'[dispatcher.worker].active_jobs
                  = workers[dispatcher.worker].active_jobs]_vars

\* a status request for job j is in flight and its worker does not answer,
\* or answers with a non-success status
Unanswered(j) ==
    IF j = 0 THEN FALSE ELSE StatusAnswer(j).status # "200"

\* C24: when get_status is called for a dispatched or running PoolJob and
\* the assigned worker is unreachable or answers with a non-success
\* status, get_status raises nothing, returns the last-known local status,
\* and leaves the PoolJob's status and completion timestamp and the
\* worker's active-job count unchanged.
C24_StatusFallback ==
    [][\A p \in 1..NumPolls :
         Unanswered(polls[p])
           => /\ ~get_job_status(polls[p]).raised
              /\ get_job_status(polls[p]).pool_status
                   = pool_jobs[polls[p]].status
              /\ polls'[p] = 0
                   => /\ pool_jobs' = pool_jobs
                      /\ workers' = workers]_vars

\* a status request is under way for a job whose worker has gone
C24_Witness ==
    \E p \in 1..NumPolls :
        /\ Unanswered(polls[p])
        /\ pool_jobs[polls[p]].status \in {"dispatched", "running"}
        /\ workers[pool_jobs[polls[p]].worker_id].active_jobs > 0

\* a step of the health-check loop, of the dispatcher, of a status request
HealthLoopStep == health' # health
DispatchStep == dispatcher' # dispatcher
StatusRequestStep == polls' # polls

FlagChanged(w) == workers'[w].is_healthy # workers[w].is_healthy
CountChanged(w) == workers'[w].active_jobs # workers[w].active_jobs

\* C25 as stated: a worker's health flag is changed only by the
\* health-check loop and its active-job count only by the dispatch path and
\* the status-resolution path; submit, dispatch, get_status and get_output
\* leave every health flag unchanged and the health-check loop leaves every
\* active-job count unchanged.
C25_FlagOnlyByHealthLoop ==
    [][\A w \in DOMAIN workers :
         /\ FlagChanged(w) => HealthLoopStep
         /\ CountChanged(w) => (DispatchStep \/ StatusRequestStep)]_vars

\* C25 amended: a worker's health flag is changed only by the health-check
\* loop and by the dispatcher, which sets the flag of the worker it
\* forwarded an entry to to false when the forward request raises; its
\* active-job count is changed only by the dispatch path and the
\* status-resolution path.  submit, get_status and get_output leave every
\* health flag unchanged and the health-check loop leaves every active-job
\* count unchanged.
C25_FlagByHealthLoopOrFailedDispatch ==
    [][\A w \in DOMAIN workers :
         /\ FlagChanged(w)
              => \/ HealthLoopStep
                 \/ /\ DispatchStep
                    /\ dispatcher.pc = "post"
                    /\ dispatcher.worker = w
                    /\ ~workers'[w].is_healthy
                    /\ job_queue' = Append(job_queue, dispatcher.job)
         /\ CountChanged(w) => (DispatchStep \/ StatusRequestStep)]_vars

\* the dispatcher has marked unhealthy a worker whose node is up: the
\* worker accepted an entry and the reply could not be read
C25_Witness ==
    /\ LostReplies > 0
    /\ \E w \in DOMAIN workers :
         /\ node[w] = "up"
         /\ ~workers[w].is_healthy
         /\ health = 0

\* the nodes whose answer to the probe is a success carrying the identity
\* the worker was configured with
Genuine == {"up", "rejecting"}

\* C26: after a health probe of a worker its health flag is true if and
\* only if the probe got a success answer whose worker identity is the one
\* the worker was configured with; a transport error, a timeout, a
\* non-success answer or another identity sets the flag to false.
C26_HealthProbe ==
    [][(health \in DOMAIN workers /\ health' # health)
          => /\ workers'[health].is_healthy <=> node[health] \in Genuine
             /\ \A w \in DOMAIN workers \ {health} : workers'[w] = workers[w]
      ]_vars

\* the loop has probed every worker: an impostor is unhealthy, a node that
\* answers in its own name is healthy
C26_Witness ==
    /\ health = 0
    /\ \E w, v \in DOMAIN workers :
         /\ node[w] = "impostor" /\ ~workers[w].is_healthy
         /\ node[v] = "up" /\ workers[v].is_healthy

\* C27: the dispatch queue is strict FIFO: an entry is taken from the front
\* only, by the dispatcher, and an entry that is pushed or requeued (no
\* eligible worker, failed dispatch) goes behind every entry waiting at
\* that moment; nothing else changes the queue.
C27_Fifo ==
    [][\/ job_queue' = job_queue
       \/ /\ job_queue # <<>>
          /\ job_queue' = Tail(job_queue)
          /\ dispatcher.pc = "get"
          /\ dispatcher'.job = Head(job_queue)
       \/ \E j \in DOMAIN pool_jobs' :
            /\ job_queue' = Append(job_queue, j)
            /\ \/ j \notin DOMAIN pool_jobs
               \/ dispatcher.pc # "get" /\ dispatcher.job = j]_vars

\* the entry of job 1 was requeued behind the entry of job 2, pushed later
C27_Witness ==
    /\ job_queue = <<2, 1>>
    /\ dispatcher.pc = "get"

\* -------------------------------------------- further claims on the queue
\* cancel_job has killed the processes of job j and marked it cancelled
CancelDone(j) ==
    \E t \in Callers : pc[t] = "save" /\ op[t] = "cancel" /\ arg[t] = j

\* a restart of job j called now is accepted: a caller can take the lock
\* and finds the job cancelled
RestartWouldBeAccepted(j) ==
    /\ j \in DOMAIN jobs
    /\ jobs[j].status = "cancelled"
    /\ lock = NoThread
    /\ \E t \in Callers : pc[t] = "idle"

\* C28: once cancel(id) has marked the job cancelled, the status stays
\* cancelled until restart(id) is called, whatever the execution thread
\* does, and the cancel ends so that a restart(id) at any later time is
\* accepted.
C28_CancelledUntilRestart ==
    /\ [][\A j \in DOMAIN jobs \cap DOMAIN jobs' :
            (jobs[j].status = "cancelled" /\ jobs'[j].status # "cancelled")
              => \E t \in Callers : op'[t] = "restart" /\ arg'[t] = j]_vars
    /\ \A j \in ArgIds : CancelDone(j) ~> RestartWouldBeAccepted(j)

SpawnPoints == {"pkill"}

\* C30: the job-table lock is never held while a process is spawned or
\* awaited: not during the job's command, not during the creation or
\* teardown of the ephemeral user, not during the kill issued by cancel.
C30_NoSpawnUnderLock ==
    \A t \in Threads : pc[t] \in SpawnPoints => lock # t

\* the ledger holds exactly the jobs of the table, each with its status
LedgerMatchesTable ==
    /\ DOMAIN ledger = DOMAIN jobs
    /\ \A j \in DOMAIN jobs : ledger[j].status = jobs[j].status

\* a thread has changed the table and has not yet come back from the save
MutationUnderWay == \E t \in Threads : pc[t] = "save"

\* C31: whenever no thread is inside a locked block the ledger holds
\* exactly the job ids of the table, each with the same status, and every
\* mutation (enqueue, the running mark, cancel, restart, delete) is
\* completed: its thread leaves the lock with the ledger equal to the table,
\* so that a crash from then on reloads the same table.
C31_LedgerMatchesTable ==
    /\ [](lock = NoThread => LedgerMatchesTable)
    /\ MutationUnderWay ~> (lock = NoThread /\ LedgerMatchesTable)

\* _run_job(j) is scheduled or under way: job j waits in the pool's work
\* queue, or a pool thread has taken it and has not come back
ExecutionPending(j) ==
    \/ \E i \in 1..Len(poolq) : poolq[i] = j
    \/ \E w \in Workers : pc[w] # "idle" /\ op[w] = "run" /\ arg[w] = j

\* delete_job has taken out of the table a job whose execution was still
\* to begin
QueuedJobDeleted(j) == DeleteAccepted(j) /\ ExecutionPending(j)

\* C40: after delete(id) has removed a job that was still queued, the
\* delete returns, the execution scheduled for the job ends without having
\* marked it running and without raising, and the ephemeral user made for
\* the job at enqueue is deleted.
C40_DeletedQueuedJob ==
    /\ [](\A w \in Workers : ret[w] # "KeyError")
    /\ [](\A j \in ArgIds : RunStarted(j) => j \in DOMAIN jobs)
    /\ \A j \in ArgIds :
         QueuedJobDeleted(j)
           ~> (~DeleteAccepted(j) /\ ~ExecutionPending(j) /\ j \notin users)

\* ------------------------------------- further claims on the RateLimiter
\* every caller's CPU samples and submission timestamps are in the order of
\* their timestamps
TimeOrdered ==
    /\ \A ip \in DOMAIN cpu_usage :
         \A i, j \in 1..Len(cpu_usage[ip]) :
            i < j => cpu_usage[ip][i][1] <= cpu_usage[ip][j][1]
    /\ \A ip \in DOMAIN job_history :
         \A i, j \in 1..Len(job_history[ip]) :
            i < j => job_history[ip][i] <= job_history[ip][j]

\* caller ip holds no CPU sample older than 60 s and no submission
\* timestamp older than 3600 s
NoStaleEntry(ip) ==
    /\ ip \in DOMAIN cpu_usage
    /\ ip \in DOMAIN job_history
    /\ \A i \in 1..Len(cpu_usage[ip]) : cpu_usage[ip][i][1] >= now - 60
    /\ \A i \in 1..Len(job_history[ip]) : job_history[ip][i] >= now - 3600

\* submission s of caller ip takes the step register_job_end, or a
\* can_submit_job that gets past the check of line 51
PrunesFor(s, ip) ==
    \/ sub[s].pc = "running" /\ sub[s].ip = ip /\ sub'[s].pc = "idle"
    \/ /\ sub[s].pc = "idle"
       /\ sub'[s].pc \in {"admitted", "rejected"}
       /\ sub'[s].ip = ip
       /\ sub'[s].reason # "Max concurrent jobs"

\* C32: in every reachable quota state each caller's CPU samples and
\* submission timestamps are ordered by non-decreasing timestamp; and right
\* after a register_end, or a can_submit that passes the concurrency check,
\* the caller holds no CPU sample older than 60 s and no submission
\* timestamp older than 3600 s.
C32_OrderedAndPruned ==
    [][/\ TimeOrdered'
       /\ \A s \in Submissions, ip \in Ips :
            PrunesFor(s, ip) => NoStaleEntry(ip)']_vars

\* a job is still running whose submission timestamp has been pruned, more
\* than an hour after its start, by a later call that also left a sample
C32_Witness ==
    /\ swept = "none"
    /\ \E s \in Submissions :
         /\ sub[s].pc = "running"
         /\ sub[s].ip \in DOMAIN job_history
         /\ job_history[sub[s].ip] = <<>>
         /\ sub[s].ip \in DOMAIN cpu_usage
         /\ cpu_usage[sub[s].ip] # <<>>

\* C33: in every reachable state every caller that has an entry in the CPU
\* samples, the submission history or the active-job sets also has a
\* last-seen timestamp, so that sweep_inactive can come to remove it.
C33_NoUntrackedCaller ==
    (DOMAIN cpu_usage \cup DOMAIN job_history \cup DOMAIN active_jobs)
        \subseteq DOMAIN last_seen

\* --------------------------------------- further claims on the coordinator
\* the worker answers the submission forwarded to it with success: its
\* node has taken the job into its own queue
AcceptedByWorker ==
    /\ dispatcher.pc = "post"
    /\ dispatcher'.pc = "get"
    /\ Len(remote') = Len(remote) + 1

\* C34: a successful dispatch (the worker answers the forwarded submission
\* with success) sets the PoolJob's worker id and remote job id, sets its
\* status to dispatched, increases the selected worker's active-job count
\* by exactly 1, does not requeue the entry, and changes no other PoolJob
\* and no other worker.
C34_SuccessfulDispatch ==
    [][AcceptedByWorker =>
         LET j == dispatcher.job
             w == dispatcher.worker
         IN  /\ pool_jobs' = [pool_jobs EXCEPT
                                ![j].status = "dispatched",
                                ![j].worker_id = w,
                                ![j].remote_job_id = Len(remote')]
             /\ workers' = [workers EXCEPT ![w].active_jobs = @ + 1]
             /\ job_queue' = job_queue]_vars

\* C35: in every reachable coordinator state each worker's active-job
\* count is at least 0 and at most its maximum concurrent-job capacity, for
\* any interleaving of the dispatcher, the health-check loop and status
\* polls.
C35_CountWithinCapacity ==
    \A w \in DOMAIN workers :
        /\ workers[w].active_jobs >= 0
        /\ workers[w].active_jobs <= workers[w].max_concurrent_jobs

\* a worker is at its capacity after a job of the pool has ended and its
\* slot was released
C35_Witness ==
    /\ \E w \in DOMAIN workers :
          workers[w].active_jobs = workers[w].max_concurrent_jobs
    /\ \E j \in DOMAIN pool_jobs :
          /\ pool_jobs[j].status \in {"completed", "failed"}
          /\ pool_jobs[j].completed_at = Stamped

\* the PoolJobs assigned to worker w that the coordinator holds as
\* dispatched or running
Assigned(w) ==
    {j \in DOMAIN pool_jobs : /\ pool_jobs[j].worker_id = w
                              /\ pool_jobs[j].status \in {"dispatched", "running"}}

\* C36: in every reachable coordinator state each worker's active-job
\* count equals the number of PoolJobs assigned to that worker whose
\* coordinator-side status is dispatched or running, whatever statuses the
\* worker reports and however status polls interleave.
C36_CountEqualsAssigned ==
    \A w \in DOMAIN workers :
        workers[w].active_jobs = Cardinality(Assigned(w))

\* PoolJob j was dispatched and has finished on its worker
FinishedOnWorker(j) ==
    IF j \in DOMAIN pool_jobs
    THEN /\ pool_jobs[j].remote_job_id # NoRemote
         /\ remote[pool_jobs[j].remote_job_id].status \in {"completed", "failed"}
    ELSE FALSE

\* the slot PoolJob j took on its worker has been given back, lines 204-205
SlotReleased(j) ==
    IF j \in DOMAIN pool_jobs
    THEN pool_jobs[j].completed_at = Stamped
    ELSE FALSE

\* C37: a worker's capacity is eventually released: for every PoolJob that
\* finishes on its worker the worker's active-job count is eventually
\* decremented, also when no caller asks for the status of the finished
\* job.
C37_CapacityReleased ==
    \A j \in PoolJobIds : FinishedOnWorker(j) ~> SlotReleased(j)

\* the records of the worker nodes for PoolJob j: the times it was accepted
Acceptances(j) == {r \in DOMAIN remote : remote[r].job = j}

\* C38: each PoolJob is accepted by at most one worker: once a worker has
\* answered a forwarded submission with success the entry is neither put
\* back on the dispatch queue nor forwarded again, also when the success
\* response cannot be read.
C38_AcceptedOnce ==
    \A j \in DOMAIN pool_jobs :
        /\ Cardinality(Acceptances(j)) <= 1
        /\ Acceptances(j) # {} => Entries(j) = 0
====
